---------------------------- MODULE Spec2Model ----------------------------
(***************************************************************************)
(* The lead-capture funnel of ai-web-auditor: LeadCaptureFlow with the     *)
(* components it mounts (PackageSelection, EnrollmentForm,                 *)
(* StripeCheckout, SocialShareUnlock), the services it calls, the browser  *)
(* it runs in, the payment return page, the pricing page and the audit     *)
(* page.                                                                   *)
(*                                                                         *)
(* Strings the code inspects character by character (email, name, url)     *)
(* are sequences of one-character strings (the url's scheme is one         *)
(* element).  An id is a number, '' and undefined are 0.                    *)
(* A React component's local state exists while the component is mounted:  *)
(* it has its initial value whenever the step that renders it is not the   *)
(* current one.  An effect runs in the action that changes one of its      *)
(* dependencies.  The fields of EnrollmentForm (email, name, the           *)
(* checkboxes, the signature) are read by handleSubmit only: they are the  *)
(* inputs of that action, the values the user left in the form.            *)
(***************************************************************************)
EXTENDS Naturals, Integers, Sequences, FiniteSets, TLC

VARIABLES
  step,              \* LeadCaptureFlow: step
  error,             \* LeadCaptureFlow: error
  leadData,          \* LeadCaptureFlow: leadData
  interval,          \* poll effect: the audit id its interval polls, 0: no interval
  polls,             \* audit-status requests not yet handled by fetchAudit
  pollSeq,           \* number of audit-status requests dispatched so far
  starts,            \* auditApi.start calls awaited by handleUrlSubmit
  auditStatus,       \* audit service: status of each audit id
  selectedPackage,   \* PackageSelection: selectedPackage
  selectedAudits,    \* PackageSelection: selectedAudits
  isSubmitting,      \* EnrollmentForm: isSubmitting
  formError,         \* EnrollmentForm: error
  rejected,          \* the last handleSubmit call of the mounted form found a consent
                     \* box unticked
  formProps,         \* the props LeadCaptureFlow renders EnrollmentForm with
  enrolling,         \* handleSubmit calls awaiting the client-IP lookup
  auditEntries,      \* audit-log entries built by createAuditLogEntry so far
  leadReqs,          \* leadsApi.createLead calls awaited by handleEnrollmentSubmit
  leads,             \* lead service: the leads created
  isLoading,         \* StripeCheckout: isLoading
  checkoutError,     \* StripeCheckout: error
  checkouts,         \* paymentsApi.createCheckout calls awaited by handleCheckout
  sessions,          \* payment service: number of checkout sessions created
  sharedPlatform,    \* SocialShareUnlock: sharedPlatform
  isVerifying,       \* SocialShareUnlock: isVerifying
  shareError,        \* SocialShareUnlock: error
  verifies,          \* verify-share requests awaited by handleVerifyShare
  page,              \* what the browser tab shows: funnel, stripe, payment-success,
                     \* pricing, login, audit
  pending_payment,   \* sessionStorage item 'pending_payment'
  pendingPayment,    \* PaymentSuccessContent: pendingPayment
  session,           \* the checkout session of the hosted checkout page the tab
                     \* shows or has returned from, 0: none
  purchases,         \* PricingPage: createCheckout calls awaited by handlePurchase
  pricingLoading,    \* PricingPage: isLoading
  pricingError,      \* PricingPage: error
  auditPageId,       \* AuditPage: auditId (params.id), 0: the page is not shown
  audit,             \* AuditPage: audit, the status of the audit shown or null
  loading,           \* AuditPage: loading
  auditPageError,    \* AuditPage: error
  auditPageInterval, \* AuditPage poll effect: its interval is set
  auditPagePolls,    \* audit-status requests not yet handled by AuditPage's fetchAudit
  canvas,            \* SignatureCanvas: the points of the surface that carry ink
  isDrawing,         \* SignatureCanvas: isDrawingRef.current
  lastPoint,         \* SignatureCanvas: lastPointRef.current, 0: null
  sigDataUrl,        \* EnrollmentForm: signatureDataUrl, the payload last passed to
                     \* onSignatureChange
  auth,              \* useAuth store: user, isLoading, isAuthenticated
  authCalls,         \* authApi calls awaited by the store's functions
  authSeq,           \* number of authApi calls made so far
  cookie,            \* auth service: the browser holds a valid session
  leaving,           \* window.location.href was assigned, the document is being replaced
  isOpen,            \* SalesChat: isOpen
  messages,          \* SalesChat: messages
  input,             \* SalesChat: input, a sequence of tokens as the form's texts
  chatLoading,       \* SalesChat: loading
  timers,            \* SalesChat: the setTimeout(sendMessage, 100) calls not yet fired
  chatReqs           \* SalesChat: /api/ai/chat requests awaited by sendMessage

flowVars == <<step, error, leadData>>
pollVars == <<interval, polls, pollSeq>>
auditVars == <<starts, auditStatus>>
packageVars == <<selectedPackage, selectedAudits>>
formVars == <<isSubmitting, formError, rejected>>
enrollVars == <<formProps, enrolling, auditEntries>>
leadVars == <<leadReqs, leads>>
checkoutVars == <<isLoading, checkoutError, checkouts, sessions>>
shareVars == <<sharedPlatform, isVerifying, shareError, verifies>>
pricingVars == <<purchases, pricingLoading, pricingError>>
auditPageVars == <<auditPageId, audit, loading, auditPageError, auditPageInterval,
                   auditPagePolls>>
storageVars == <<pending_payment, pendingPayment, session>>
browserVars == <<page, storageVars, pricingVars, auditPageVars>>
canvasVars == <<canvas, isDrawing, lastPoint, sigDataUrl>>
\* the components checked on their own
authVars == <<auth, authCalls, authSeq, cookie, leaving>>
chatVars == <<isOpen, messages, input, chatLoading, timers, chatReqs>>
widgetVars == <<canvasVars, authVars, chatVars>>
vars == <<flowVars, pollVars, auditVars, packageVars, formVars, enrollVars, leadVars,
          checkoutVars, shareVars, browserVars, widgetVars>>

\* null or undefined where a string is expected, and where an object is
NULL == "null"
Absent == [absent |-> TRUE]

-----------------------------------------------------------------------------
(* Bounds *)

\* audits the audit service starts
MaxAudits == 3
\* audit-status requests dispatched
MaxPolls == 2
\* calls awaited at a time by handleSubmit, handleEnrollmentSubmit, handleCheckout,
\* handleVerifyShare, handlePurchase
MaxInFlight == 1
\* leads the lead service creates
MaxLeads == 2
\* enrollment submissions accepted, each building an audit-log entry
MaxEntries == 2
\* checkout sessions the payment service creates
MaxSessions == 2

-----------------------------------------------------------------------------
(* Program constants *)

FlowStep == {"url-input", "auditing", "teaser-results", "package-selection",
             "enrollment", "social-share", "payment", "complete"}

DEFAULT_PACKAGES ==
  { [id |-> "starter", price |-> 0,   auditsIncluded |-> 2],
    [id |-> "pro",     price |-> 199, auditsIncluded |-> 4],
    [id |-> "full",    price |-> 499, auditsIncluded |-> 6] }

AuditOrder == <<"performance", "seo", "security", "gdpr", "accessibility", "technical">>

AUDIT_TYPES == {AuditOrder[i] : i \in 1..Len(AuditOrder)}

\* price in cents
PACKAGE_PRICES == [p \in {"starter", "pro", "full"} |->
                     CASE p = "starter" -> 0 [] p = "pro" -> 199 [] p = "full" -> 499]

TERMS_VERSION == "1.0.0"
PRIVACY_VERSION == "1.0.0"

ErrInvalidUrl == "Invalid URL. Please enter a valid website address."
ErrAuditFailed == "Audit failed. Please try again."
ErrStartFailed == "Failed to start audit. Please try again."
ErrServer == "Server connection error"
ErrEnrollment == "An error occurred. Please try again."
ErrVerifyShare == "Failed to verify share. Please try again."
ErrNetwork == "Network error. Please try again."
ErrPurchase == "Eroare la procesarea platii"
ErrAuditLoad == "Eroare la incarcarea auditului"

SHARE_PLATFORMS == {"twitter", "linkedin", "facebook"}

\* PricingPage: the ids of plans and subscriptions
Products == {"single", "pack_5", "pack_10", "pack_20", "monthly", "yearly"}

-----------------------------------------------------------------------------
(* Strings *)

Whitespace == {" "}

\* String.prototype.trim
RECURSIVE TrimLeft(_)
TrimLeft(s) == IF s # <<>> /\ Head(s) \in Whitespace THEN TrimLeft(Tail(s)) ELSE s

RECURSIVE TrimRight(_)
TrimRight(s) == IF s # <<>> /\ s[Len(s)] \in Whitespace
                  THEN TrimRight(SubSeq(s, 1, Len(s) - 1)) ELSE s

Trim(s) == TrimRight(TrimLeft(s))

\* [^\s@]+ matches the whole of s
NoSpaceAt(s) == s # <<>> /\ \A k \in 1..Len(s) : s[k] \notin (Whitespace \cup {"@"})

\* /^[^\s@]+@[^\s@]+\.[^\s@]+$/.test(e)
EmailRegexTest(e) ==
  \E i \in 1..Len(e) : \E j \in 1..Len(e) :
     /\ i < j
     /\ e[i] = "@"
     /\ e[j] = "."
     /\ NoSpaceAt(SubSeq(e, 1, i - 1))
     /\ NoSpaceAt(SubSeq(e, i + 1, j - 1))
     /\ NoSpaceAt(SubSeq(e, j + 1, Len(e)))

\* what the user may type into the form
Emails == { <<"a", "@", "b", ".", "c">>, <<"a", "@", "b">>, <<"a", " ", "@", "b", ".", "c">> }
Names == { <<" ", "a", " ">>, <<"a", "b">> }
Signatures == {NULL, "data:image/png"}

\* what the user may type into the URL field (the input is `required`)
Urls == { <<"example.com">>, <<"https://", "example.com">>, <<"exa", " ", "mple">>,
          <<"Https://", "example.com">> }

startsWith(u, scheme) == u # <<>> /\ Head(u) = scheme

\* handleUrlSubmit: validUrl
NormalizeUrl(u) ==
  IF ~startsWith(u, "http://") /\ ~startsWith(u, "https://") THEN <<"https://">> \o u ELSE u

\* new URL(v) does not throw: a scheme followed by a host without whitespace
URLParses(v) ==
  /\ Len(v) >= 2
  /\ v[1] \in {"http://", "https://"}
  /\ \A k \in 2..Len(v) : v[k] \notin Whitespace /\ v[k] \notin {"http://", "https://"}

-----------------------------------------------------------------------------
(* Initial state: LeadCaptureFlow mounted, nothing in flight *)

\* <EnrollmentForm onSubmit={handleEnrollmentSubmit} />
EnrollmentFormProps == [onSubmit |-> "handleEnrollmentSubmit"]

InitLeadData == [url |-> <<>>, auditId |-> 0, leadId |-> 0, auditResult |-> Absent,
                 selectedPackage |-> "", selectedAudits |-> {}, enrollment |-> Absent]

PackageInit == selectedPackage = NULL /\ selectedAudits = {}

FormInit ==
  /\ isSubmitting = FALSE
  /\ formError = NULL
  /\ rejected = FALSE

ShareInit ==
  /\ sharedPlatform = NULL
  /\ isVerifying = FALSE
  /\ shareError = ""
  /\ verifies = {}

\* the tab shows the funnel: no checkout session, no pricing page, no audit page
BrowserInit ==
  /\ page = "funnel"
  /\ pending_payment = Absent
  /\ pendingPayment = Absent
  /\ session = 0
  /\ purchases = {}
  /\ pricingLoading = NULL
  /\ pricingError = ""
  /\ auditPageId = 0
  /\ audit = NULL
  /\ loading = TRUE
  /\ auditPageError = ""
  /\ auditPageInterval = FALSE
  /\ auditPagePolls = {}

\* SignatureCanvas after its first initCanvas, no payload reported yet
CanvasInit ==
  /\ canvas = {}
  /\ isDrawing = FALSE
  /\ lastPoint = 0
  /\ sigDataUrl = NULL

\* create<AuthState>: the initial store; nobody is logged in
AuthInit ==
  /\ auth = [user |-> NULL, isLoading |-> TRUE, isAuthenticated |-> FALSE]
  /\ authCalls = {}
  /\ authSeq = 0
  /\ cookie = FALSE
  /\ leaving = FALSE

ChatInit ==
  /\ isOpen = FALSE
  /\ messages = <<>>
  /\ input = <<>>
  /\ chatLoading = FALSE
  /\ timers = <<>>
  /\ chatReqs = 0

WidgetInit == CanvasInit /\ AuthInit /\ ChatInit

Init ==
  /\ step = "url-input"
  /\ error = ""
  /\ leadData = InitLeadData
  /\ interval = 0
  /\ polls = {}
  /\ pollSeq = 0
  /\ starts = 0
  /\ auditStatus = [a \in 1..MaxAudits |-> "none"]
  /\ PackageInit
  /\ FormInit
  /\ formProps = EnrollmentFormProps
  /\ enrolling = {}
  /\ auditEntries = 0
  /\ leadReqs = {}
  /\ leads = {}
  /\ isLoading = FALSE
  /\ checkoutError = ""
  /\ checkouts = {}
  /\ sessions = 0
  /\ ShareInit
  /\ BrowserInit
  /\ WidgetInit

-----------------------------------------------------------------------------
(* Rendering: what a commit of new LeadCaptureFlow state does to the       *)
(* effect and to the components the step renders                           *)

\* the poll effect without its cleanup: the interval survives the step
PollEffect_noCleanup(rest) ==
  IF step' = "auditing" /\ leadData'.auditId # 0
       /\ <<step', leadData'.auditId>> # <<step, leadData.auditId>>
    THEN /\ pollSeq < MaxPolls
         /\ interval' = leadData'.auditId
         /\ pollSeq' = pollSeq + 1
         /\ polls' = rest \cup {[seq |-> pollSeq + 1, aid |-> leadData'.auditId,
                                 status |-> "sent"]}
    ELSE interval' = interval /\ polls' = rest /\ pollSeq' = pollSeq

\* The poll effect, dependencies [step, leadData.auditId]: when one changed, the
\* cleanup clears the interval and the effect runs again; it returns at once
\* unless step is auditing and auditId is set, and else calls fetchAudit() and
\* sets the interval.  rest: the requests this action leaves unanswered.
PollEffect(rest) ==
  IF <<step', leadData'.auditId>> = <<step, leadData.auditId>>
    THEN interval' = interval /\ polls' = rest /\ pollSeq' = pollSeq
    ELSE IF step' = "auditing" /\ leadData'.auditId # 0
      THEN /\ pollSeq < MaxPolls
           /\ interval' = leadData'.auditId
           /\ pollSeq' = pollSeq + 1
           /\ polls' = rest \cup {[seq |-> pollSeq + 1, aid |-> leadData'.auditId,
                                   status |-> "sent"]}
      ELSE interval' = 0 /\ polls' = rest /\ pollSeq' = pollSeq

\* PackageSelection is rendered in package-selection only
PackageRender ==
  IF step' = "package-selection" THEN UNCHANGED packageVars
  ELSE selectedPackage' = NULL /\ selectedAudits' = {}

\* EnrollmentForm is rendered in enrollment only; a handleSubmit call of a form
\* that is gone runs on, its state updates are dropped
FormRender ==
  IF step' = "enrollment" THEN UNCHANGED formVars
  ELSE /\ isSubmitting' = FALSE
       /\ formError' = NULL
       /\ rejected' = FALSE

Orphaned(calls) == {[c EXCEPT !.mounted = FALSE] : c \in calls}

EnrollRender ==
  /\ enrolling' = (IF step' = "enrollment" THEN enrolling ELSE Orphaned(enrolling))
  /\ formProps' = formProps
  /\ auditEntries' = auditEntries

\* StripeCheckout is rendered in payment only (leadData.selectedPackage is set
\* by then)
CheckoutRender ==
  /\ IF step' = "payment" /\ leadData'.selectedPackage # ""
       THEN UNCHANGED <<isLoading, checkoutError>>
       ELSE isLoading' = FALSE /\ checkoutError' = ""
  /\ checkouts' = (IF step' = "payment" THEN checkouts ELSE Orphaned(checkouts))
  /\ sessions' = sessions

\* SocialShareUnlock is rendered in social-share while leadData.leadId is set.
\* rest: the verify-share requests this action leaves unanswered.
ShareRender(rest) ==
  IF step' = "social-share" /\ leadData'.leadId # 0
    THEN /\ UNCHANGED <<sharedPlatform, isVerifying, shareError>>
         /\ verifies' = rest
    ELSE /\ sharedPlatform' = NULL
         /\ isVerifying' = FALSE
         /\ shareError' = ""
         /\ verifies' = Orphaned(rest)

\* everything a commit does to the components the action itself leaves alone
Render ==
  PackageRender /\ FormRender /\ EnrollRender /\ CheckoutRender /\ ShareRender(verifies)

-----------------------------------------------------------------------------
(* LeadCaptureFlow: URL submission and the audit *)

handleUrlSubmit(u) ==
  /\ page = "funnel"
  /\ step = "url-input"
  /\ IF ~URLParses(NormalizeUrl(u))
       THEN /\ error' = ErrInvalidUrl
            /\ UNCHANGED <<step, leadData, pollVars, auditVars, packageVars, formVars,
                           enrollVars, leadVars, checkoutVars, shareVars, browserVars>>
       ELSE /\ error' = ""
            /\ leadData' = [leadData EXCEPT !.url = NormalizeUrl(u)]
            /\ step' = "auditing"
            /\ starts' = starts + 1
            /\ PollEffect(polls)
            /\ UNCHANGED <<auditStatus, packageVars, formVars, enrollVars, leadVars, checkoutVars, shareVars, browserVars>>
  /\ UNCHANGED widgetVars

\* the audit service answers a start call, or the call fails
StartOutcomes == {"success", "no-success", "throw", "throw-detail"}

FreeAudit == CHOOSE a \in 1..MaxAudits :
               auditStatus[a] = "none" /\ \A b \in 1..(a - 1) : auditStatus[b] # "none"

handleUrlSubmitResume(outcome) ==
  /\ starts > 0
  /\ starts' = starts - 1
  /\ CASE outcome = "success" ->
            /\ \E a \in 1..MaxAudits : auditStatus[a] = "none"
            /\ auditStatus' = [auditStatus EXCEPT ![FreeAudit] = "pending"]
            /\ leadData' = [leadData EXCEPT !.auditId = FreeAudit]
            /\ UNCHANGED <<step, error>>
       [] outcome = "no-success" ->
            /\ error' = ErrStartFailed
            /\ step' = "url-input"
            /\ UNCHANGED <<leadData, auditStatus>>
       [] outcome = "throw" ->
            /\ error' = ErrServer
            /\ step' = "url-input"
            /\ UNCHANGED <<leadData, auditStatus>>
       [] outcome = "throw-detail" ->
            /\ error' = "detail"
            /\ step' = "url-input"
            /\ UNCHANGED <<leadData, auditStatus>>
  /\ PollEffect(polls)
  /\ Render
  /\ UNCHANGED <<leadVars, browserVars>>
  /\ UNCHANGED widgetVars

\* the audit service works on an audit
AuditProgress(a) ==
  /\ \/ auditStatus[a] = "pending" /\ auditStatus' = [auditStatus EXCEPT ![a] = "running"]
     \/ auditStatus[a] = "running" /\ auditStatus' = [auditStatus EXCEPT ![a] = "completed"]
     \/ auditStatus[a] = "running" /\ auditStatus' = [auditStatus EXCEPT ![a] = "failed"]
  /\ UNCHANGED <<flowVars, pollVars, starts, packageVars, formVars, enrollVars, leadVars, checkoutVars, shareVars, browserVars>>
  /\ UNCHANGED widgetVars

\* a poll effect that calls fetchAudit() once and sets no interval
IntervalTick_never ==
  /\ FALSE
  /\ UNCHANGED vars

\* setInterval(fetchAudit, 2000) fires: fetchAudit sends a status request
IntervalTick ==
  /\ interval # 0
  /\ pollSeq < MaxPolls
  /\ pollSeq' = pollSeq + 1
  /\ polls' = polls \cup {[seq |-> pollSeq + 1, aid |-> interval, status |-> "sent"]}
  /\ UNCHANGED <<flowVars, interval, auditVars, packageVars, formVars, enrollVars, leadVars, checkoutVars, shareVars, browserVars>>
  /\ UNCHANGED widgetVars

\* the audit service answers a status request with the status the audit has
\* then, or the request fails
getStatus(r) ==
  /\ r \in polls
  /\ r.status = "sent"
  /\ \E st \in {auditStatus[r.aid], "error"} :
       polls' = (polls \ {r}) \cup {[r EXCEPT !.status = st]}
  /\ UNCHANGED <<flowVars, interval, pollSeq, auditVars, packageVars, formVars,
                 enrollVars, leadVars, checkoutVars, shareVars, browserVars>>
  /\ UNCHANGED widgetVars

\* fetchAudit that goes on polling when the status is failed
fetchAudit_failedIgnored(r) ==
  /\ r \in polls
  /\ r.status # "sent"
  /\ CASE r.status = "completed" ->
            /\ leadData' = [leadData EXCEPT
                              !.auditResult = [id |-> r.aid, status |-> "completed"]]
            /\ step' = "teaser-results"
            /\ error' = error
       [] OTHER -> UNCHANGED flowVars
  /\ PollEffect(polls \ {r})
  /\ UNCHANGED auditVars
  /\ Render
  /\ UNCHANGED <<leadVars, browserVars>>
  /\ UNCHANGED widgetVars

\* fetchAudit after its await: the response (or the error) of request r
fetchAudit(r) ==
  /\ r \in polls
  /\ r.status # "sent"
  /\ CASE r.status = "completed" ->
            /\ leadData' = [leadData EXCEPT
                              !.auditResult = [id |-> r.aid, status |-> "completed"]]
            /\ step' = "teaser-results"
            /\ error' = error
       [] r.status = "failed" ->
            /\ error' = ErrAuditFailed
            /\ step' = "url-input"
            /\ leadData' = leadData
       [] OTHER -> UNCHANGED flowVars
  /\ PollEffect(polls \ {r})
  /\ UNCHANGED auditVars
  /\ Render
  /\ UNCHANGED <<leadVars, browserVars>>
  /\ UNCHANGED widgetVars

\* TeaserResults onSelectPackage
onSelectPackage ==
  /\ step = "teaser-results"
  /\ leadData.auditResult # Absent
  /\ step' = "package-selection"
  /\ UNCHANGED <<error, leadData, auditVars>>
  /\ PollEffect(polls)
  /\ Render
  /\ UNCHANGED <<leadVars, browserVars>>
  /\ UNCHANGED widgetVars

\* handleBack's switch with social-share sent back to package-selection
Predecessor_shareToPackage(s) ==
  CASE s = "package-selection" -> "teaser-results"
    [] s = "enrollment" -> "package-selection"
    [] s = "social-share" -> "package-selection"
    [] s = "payment" -> "enrollment"
    [] OTHER -> s

\* handleBack's switch
Predecessor(s) ==
  CASE s = "package-selection" -> "teaser-results"
    [] s = "enrollment" -> "package-selection"
    [] s = "social-share" -> "enrollment"
    [] s = "payment" -> "enrollment"
    [] OTHER -> s

\* the Back button is rendered in every step but url-input and auditing
handleBack ==
  /\ step \notin {"url-input", "auditing"}
  /\ step' = Predecessor(step)
  /\ UNCHANGED <<error, leadData, auditVars>>
  /\ PollEffect(polls)
  /\ Render
  /\ UNCHANGED <<leadVars, browserVars>>
  /\ UNCHANGED widgetVars

-----------------------------------------------------------------------------
(* PackageSelection *)

Package(p) == CHOOSE k \in DEFAULT_PACKAGES : k.id = p

\* currentPackage?.auditsIncluded || 0
maxAudits == IF selectedPackage = NULL THEN 0 ELSE Package(selectedPackage).auditsIncluded

\* a package card is clicked
PackageClick(p) ==
  /\ step = "package-selection"
  /\ selectedPackage' = p
  /\ selectedAudits' = (IF p = "full" THEN AUDIT_TYPES ELSE {})
  /\ UNCHANGED <<flowVars, pollVars, auditVars, formVars, enrollVars, leadVars, checkoutVars, shareVars, browserVars>>
  /\ UNCHANGED widgetVars

\* toggleAudit reads the membership of the category and the length of the list
\* only, so the categories are interchangeable: the user ticks the first
\* unticked button of the row, or unticks the last ticked one
Toggled ==
  {AuditOrder[i] : i \in {j \in 1..Len(AuditOrder) :
     \/ AuditOrder[j] \notin selectedAudits
          /\ \A k \in 1..(j - 1) : AuditOrder[k] \in selectedAudits
     \/ AuditOrder[j] \in selectedAudits
          /\ \A k \in (j + 1)..Len(AuditOrder) : AuditOrder[k] \notin selectedAudits}}

\* toggleAudit that adds a category whatever the length of the list
toggleAudit_noLimit(auditId) ==
  /\ step = "package-selection"
  /\ selectedPackage # NULL /\ selectedPackage # "full"
  /\ IF auditId \in selectedAudits
       THEN selectedAudits' = selectedAudits \ {auditId}
       ELSE selectedAudits' = selectedAudits \cup {auditId}
  /\ UNCHANGED <<flowVars, pollVars, auditVars, selectedPackage, formVars, enrollVars, leadVars, checkoutVars, shareVars, browserVars>>
  /\ UNCHANGED widgetVars

\* the audit buttons are rendered for a selected package other than full
toggleAudit(auditId) ==
  /\ step = "package-selection"
  /\ selectedPackage # NULL /\ selectedPackage # "full"
  /\ IF auditId \in selectedAudits
       THEN selectedAudits' = selectedAudits \ {auditId}
       ELSE IF Cardinality(selectedAudits) < maxAudits
              THEN selectedAudits' = selectedAudits \cup {auditId}
              ELSE selectedAudits' = selectedAudits
  /\ UNCHANGED <<flowVars, pollVars, auditVars, selectedPackage, formVars, enrollVars, leadVars, checkoutVars, shareVars, browserVars>>
  /\ UNCHANGED widgetVars

\* the Continue button disabled while no package is selected only
ContinueDisabled_packageOnly == selectedPackage = NULL

\* disabled={!selectedPackage || (selectedPackage !== 'full' && selectedAudits.length === 0)}
ContinueDisabled ==
  selectedPackage = NULL \/ (selectedPackage # "full" /\ Cardinality(selectedAudits) = 0)

\* handleContinue with LeadCaptureFlow's handlePackageSelect as onSelect
handleContinue ==
  /\ step = "package-selection"
  /\ ~ContinueDisabled
  /\ selectedPackage # NULL
  /\ leadData' = [leadData EXCEPT
                    !.selectedPackage = selectedPackage,
                    !.selectedAudits = (IF selectedPackage = "full" THEN AUDIT_TYPES
                                        ELSE selectedAudits)]
  /\ step' = "enrollment"
  /\ UNCHANGED <<error, auditVars>>
  /\ PollEffect(polls)
  /\ Render
  /\ UNCHANGED <<leadVars, browserVars>>
  /\ UNCHANGED widgetVars

-----------------------------------------------------------------------------
(* EnrollmentForm *)

\* the calls the components await
InFlight ==
  Cardinality(enrolling) + Cardinality(leadReqs) + Cardinality(checkouts)
    + Cardinality(verifies) + Cardinality(purchases)

isEmailValid(email) == EmailRegexTest(email)

\* isFormValid without the two consent boxes
isFormValid_noConsent(email, name, termsAccepted, privacyAccepted) ==
  isEmailValid(email) /\ Len(Trim(name)) >= 2

isFormValid(email, name, termsAccepted, privacyAccepted) ==
  isEmailValid(email) /\ Len(Trim(name)) >= 2 /\ termsAccepted /\ privacyAccepted

FreeCall == CHOOSE k \in 1..MaxInFlight : \A c \in enrolling : c.id # k

\* the form's submit event with the fields as the user left them: handleSubmit
\* up to its first await (the client-IP lookup of createTermsAcceptance).  The
\* submit button is disabled while the form is invalid; the handler checks
\* again.
handleSubmit(email, name, termsAccepted, privacyAccepted, signatureDataUrl) ==
  /\ step = "enrollment"
  /\ IF ~isFormValid(email, name, termsAccepted, privacyAccepted)
       THEN /\ rejected' = ~(termsAccepted /\ privacyAccepted)
            /\ UNCHANGED <<flowVars, pollVars, auditVars, packageVars, isSubmitting,
                           formError, enrollVars, leadVars, checkoutVars, shareVars, browserVars>>
       ELSE /\ InFlight < MaxInFlight
            /\ auditEntries + Cardinality(enrolling) < MaxEntries
            /\ isSubmitting' = TRUE
            /\ formError' = NULL
            /\ rejected' = FALSE
            /\ enrolling' = enrolling \cup
                 {[id |-> FreeCall, mounted |-> TRUE,
                   email |-> email, name |-> name,
                   termsAccepted |-> termsAccepted, privacyAccepted |-> privacyAccepted,
                   signatureDataUrl |-> signatureDataUrl,
                   onSuccess |-> (IF "onSuccess" \in DOMAIN formProps
                                    THEN formProps.onSuccess ELSE NULL),
                   packageId |-> leadData.selectedPackage,
                   auditId |-> leadData.auditId]}
            /\ UNCHANGED <<flowVars, pollVars, auditVars, packageVars, formProps,
                           auditEntries, leadVars, checkoutVars, shareVars, browserVars>>
  /\ UNCHANGED widgetVars

\* createTermsAcceptance(`terms:${TERMS_VERSION},privacy:${PRIVACY_VERSION}`, signature)
createTermsAcceptance(termsVersion, signature, clientIP) ==
  [termsVersion |-> termsVersion, ipAddress |-> clientIP, signatureDataUrl |-> signature]

\* createAuditLogEntry('enroll', {email, additionalMetadata: {..., hasSignature}})
createAuditLogEntry(action, mail, hasSignature) ==
  [action |-> action, email |-> mail, hasSignature |-> hasSignature]

ClientIPs == {NULL, "203.0.113.7"}

\* sha256(message): the hex digest, a string fixed by the message and told
\* apart from every message
sha256(message) == "sha256(" \o message \o ")"

\* the text of the Terms & Conditions modal
TermsContent == "Terms & Conditions"

\* generateTermsHash: sha256(JSON.stringify({terms: termsContent, version: '1.0'}))
generateTermsHash(termsContent) ==
  sha256("{terms:" \o termsContent \o ",version:1.0}")

\* the browser attributes generateBrowserFingerprint reads, as strings
Navigator ==
  <<"Mozilla/5.0", "en-US", "1920", "1080", "24", "-120", "8", "Linux x86_64">>

RECURSIVE Join(_, _)
\* components.join(sep)
Join(components, sep) ==
  IF Len(components) = 0 THEN ""
  ELSE IF Len(components) = 1 THEN components[1]
  ELSE components[1] \o sep \o Join(Tail(components), sep)

\* generateBrowserFingerprint: sha256(components.join('|'))
generateBrowserFingerprint == sha256(Join(Navigator, "|"))

FreeLeadReq == CHOOSE k \in 1..MaxInFlight : \A r \in leadReqs : r.id # k

\* What the call does with the enrollment data it built.  The form calls its
\* onSuccess prop.  Without one the call throws a TypeError inside the try
\* block: catch sets the form's error.  With LeadCaptureFlow's
\* handleEnrollmentSubmit it runs that handler up to its await: it stores the
\* data and sends the create-lead request, with the leadData of the render
\* the handler was created in.
onSuccessCall(c, data) ==
  IF c.onSuccess = NULL
    THEN /\ UNCHANGED <<flowVars, leadReqs>>
         /\ IF c.mounted
              THEN formError' = ErrEnrollment /\ isSubmitting' = FALSE
              ELSE UNCHANGED <<formError, isSubmitting>>
    ELSE /\ leadData' = [leadData EXCEPT !.enrollment = data]
         /\ UNCHANGED <<step, error>>
         /\ leadReqs' = leadReqs \cup
              {[id |-> FreeLeadReq,
                email |-> data.email,
                name |-> data.name,
                audit_id |-> c.auditId,
                package_id |-> c.packageId,
                signature_data |-> data.signatureDataUrl,
                fingerprint |-> (IF data.termsAcceptance.signatureDataUrl # NULL
                                   THEN "captured" ELSE NULL),
                terms_hash |-> data.termsAcceptance.termsVersion]}
         /\ IF c.mounted
              THEN isSubmitting' = FALSE /\ formError' = formError
              ELSE UNCHANGED <<formError, isSubmitting>>

\* handleSubmit that builds no audit-log entry
handleSubmitResume_noEntry(c, clientIP) ==
  /\ c \in enrolling
  /\ LET termsAcceptance ==
           createTermsAcceptance("terms:" \o TERMS_VERSION \o ",privacy:"
                                   \o PRIVACY_VERSION,
                                 c.signatureDataUrl, clientIP)
         enrollmentData == [email |-> c.email, name |-> c.name,
                            termsAcceptance |-> termsAcceptance,
                            signatureDataUrl |-> c.signatureDataUrl]
     IN /\ auditEntries' = auditEntries
        /\ onSuccessCall(c, enrollmentData)
  /\ enrolling' = enrolling \ {c}
  /\ UNCHANGED <<pollVars, auditVars, packageVars, rejected, formProps, leads,
                 checkoutVars, shareVars, browserVars>>
  /\ UNCHANGED widgetVars

\* handleSubmit after the client-IP lookup (a failed lookup gives null): the
\* terms acceptance, the audit-log entry, the enrollment data, the success
\* callback; finally isSubmitting is reset
handleSubmitResume(c, clientIP) ==
  /\ c \in enrolling
  /\ LET termsAcceptance ==
           createTermsAcceptance("terms:" \o TERMS_VERSION \o ",privacy:"
                                   \o PRIVACY_VERSION,
                                 c.signatureDataUrl, clientIP)
         auditEntry == createAuditLogEntry("enroll", c.email, c.signatureDataUrl # NULL)
         enrollmentData == [email |-> c.email, name |-> c.name,
                            termsAcceptance |-> termsAcceptance,
                            signatureDataUrl |-> c.signatureDataUrl]
     IN /\ auditEntry.action = "enroll"
        /\ auditEntries' = auditEntries + 1
        /\ onSuccessCall(c, enrollmentData)
  /\ enrolling' = enrolling \ {c}
  /\ UNCHANGED <<pollVars, auditVars, packageVars, rejected, formProps, leads,
                 checkoutVars, shareVars, browserVars>>
  /\ UNCHANGED widgetVars

\* the lead service answers a create-lead request, or the request fails
LeadOutcomes == {"created", "no-lead-id", "throw"}

\* package -> the step that unlocks the report
UnlockStep(selectedPkg) == IF selectedPkg = "starter" THEN "social-share" ELSE "payment"

\* handleEnrollmentSubmit that stops at a failed create-lead request and
\* reports it
handleEnrollmentSubmit_failStop(r, outcome) ==
  /\ r \in leadReqs
  /\ leadReqs' = leadReqs \ {r}
  /\ IF outcome = "created"
       THEN /\ Cardinality(leads) < MaxLeads
            /\ leads' = leads \cup {[lead_id |-> Cardinality(leads) + 1,
                                     audit_id |-> r.audit_id, package_id |-> r.package_id]}
            /\ leadData' = [leadData EXCEPT !.leadId = Cardinality(leads) + 1]
            /\ step' = UnlockStep(r.package_id)
            /\ error' = error
       ELSE /\ UNCHANGED <<leads, leadData, step>>
            /\ error' = ErrServer
  /\ PollEffect(polls)
  /\ UNCHANGED <<auditVars, browserVars>>
  /\ Render
  /\ UNCHANGED widgetVars

\* handleEnrollmentSubmit after its await
handleEnrollmentSubmit(r, outcome) ==
  /\ r \in leadReqs
  /\ leadReqs' = leadReqs \ {r}
  /\ IF outcome = "created"
       THEN /\ Cardinality(leads) < MaxLeads
            /\ leads' = leads \cup {[lead_id |-> Cardinality(leads) + 1,
                                     audit_id |-> r.audit_id, package_id |-> r.package_id]}
            /\ leadData' = [leadData EXCEPT !.leadId = Cardinality(leads) + 1]
       ELSE UNCHANGED <<leads, leadData>>
  /\ step' = UnlockStep(r.package_id)
  /\ error' = error
  /\ PollEffect(polls)
  /\ UNCHANGED <<auditVars, browserVars>>
  /\ Render
  /\ UNCHANGED widgetVars

-----------------------------------------------------------------------------
(* StripeCheckout and the payment return page *)

\* the Pay button (disabled while isLoading): handleCheckout up to its await.
\* LeadCaptureFlow passes no leadId prop.
handleCheckout ==
  /\ step = "payment"
  /\ ~isLoading
  /\ InFlight < MaxInFlight
  /\ isLoading' = TRUE
  /\ checkoutError' = ""
  /\ checkouts' = checkouts \cup
       {[id |-> CHOOSE k \in 1..MaxInFlight : \A c \in checkouts : c.id # k,
         mounted |-> TRUE,
         packageId |-> leadData.selectedPackage,
         auditId |-> leadData.auditId,
         leadId |-> 0]}
  /\ UNCHANGED <<flowVars, pollVars, auditVars, packageVars, formVars, enrollVars,
                 leadVars, sessions, shareVars, browserVars>>
  /\ UNCHANGED widgetVars

CheckoutOutcomes == {"checkout_url", "no-url", "throw"}

\* the page is left: the components and every call they await are gone
Unload ==
  /\ step' = "url-input"
  /\ error' = ""
  /\ leadData' = InitLeadData
  /\ interval' = 0
  /\ polls' = {}
  /\ starts' = 0
  /\ selectedPackage' = NULL
  /\ selectedAudits' = {}
  /\ isSubmitting' = FALSE
  /\ formError' = NULL
  /\ rejected' = FALSE
  /\ enrolling' = {}
  /\ leadReqs' = {}
  /\ isLoading' = FALSE
  /\ checkoutError' = ""
  /\ checkouts' = {}
  /\ sharedPlatform' = NULL
  /\ isVerifying' = FALSE
  /\ shareError' = ""
  /\ verifies' = {}
  /\ UNCHANGED <<pollSeq, auditStatus, formProps, auditEntries, leads>>

\* the page that showed the funnel is gone; the pages that are not shown keep
\* their initial state
FunnelLeft ==
  /\ Unload
  /\ UNCHANGED <<pricingVars, auditPageVars>>

\* handleCheckout that stores the return data before it looks at the response
handleCheckoutResume_storeFirst(c, outcome) ==
  /\ c \in checkouts
  /\ IF outcome = "checkout_url"
       THEN /\ sessions < MaxSessions
            /\ sessions' = sessions + 1
            /\ pending_payment' = [auditId |-> c.auditId, leadId |-> c.leadId,
                                   packageId |-> c.packageId, sessionId |-> sessions + 1]
            /\ page' = "stripe"
            /\ session' = sessions + 1
            /\ pendingPayment' = pendingPayment
            /\ FunnelLeft
       ELSE /\ checkouts' = checkouts \ {c}
            /\ pending_payment' = [auditId |-> c.auditId, leadId |-> c.leadId,
                                   packageId |-> c.packageId, sessionId |-> 0]
            /\ IF c.mounted
                 THEN /\ checkoutError' = (IF outcome = "no-url"
                                             THEN "Failed to create checkout session"
                                             ELSE "Payment initialization failed")
                      /\ isLoading' = FALSE
                 ELSE UNCHANGED <<checkoutError, isLoading>>
            /\ UNCHANGED <<flowVars, pollVars, auditVars, packageVars, formVars, enrollVars,
                           leadVars, sessions, shareVars, page, pendingPayment, session,
                           pricingVars, auditPageVars>>
  /\ UNCHANGED widgetVars

\* handleCheckout after its await
handleCheckoutResume(c, outcome) ==
  /\ c \in checkouts
  /\ IF outcome = "checkout_url"
       THEN /\ sessions < MaxSessions
            /\ sessions' = sessions + 1
            /\ pending_payment' = [auditId |-> c.auditId, leadId |-> c.leadId,
                                   packageId |-> c.packageId, sessionId |-> sessions + 1]
            /\ page' = "stripe"
            /\ session' = sessions + 1
            /\ pendingPayment' = pendingPayment
            /\ FunnelLeft
       ELSE /\ checkouts' = checkouts \ {c}
            /\ IF c.mounted
                 THEN /\ checkoutError' = (IF outcome = "no-url"
                                             THEN "Failed to create checkout session"
                                             ELSE "Payment initialization failed")
                      /\ isLoading' = FALSE
                 ELSE UNCHANGED <<checkoutError, isLoading>>
            /\ UNCHANGED <<flowVars, pollVars, auditVars, packageVars, formVars, enrollVars,
                           leadVars, sessions, shareVars, browserVars>>
  /\ UNCHANGED widgetVars

\* StripeCheckout "Cancel and go back"
onCancel ==
  /\ step = "payment"
  /\ step' = "enrollment"
  /\ UNCHANGED <<error, leadData, auditVars, leadVars, browserVars>>
  /\ PollEffect(polls)
  /\ Render
  /\ UNCHANGED widgetVars

\* the effect without sessionStorage.removeItem
PaymentSuccessMount_noRemove ==
  LET stored == pending_payment
  IN /\ pendingPayment' = stored
     /\ pending_payment' = pending_payment

\* PaymentSuccessContent's effect on mount
PaymentSuccessMount ==
  LET stored == pending_payment
  IN /\ IF stored # Absent
          THEN pendingPayment' = stored /\ pending_payment' = Absent
          ELSE pendingPayment' = Absent /\ pending_payment' = pending_payment

\* the variables of the funnel's components
funnelVars == <<flowVars, pollVars, auditVars, packageVars, formVars, enrollVars,
                leadVars, checkoutVars, shareVars>>

\* the hosted checkout sends the browser to the payment return page
StripeSuccess ==
  /\ page = "stripe"
  /\ page' = "payment-success"
  /\ PaymentSuccessMount
  /\ UNCHANGED <<funnelVars, session, pricingVars, auditPageVars>>
  /\ UNCHANGED widgetVars

\* the payment return page is loaded again
PaymentSuccessReload ==
  /\ page = "payment-success"
  /\ page' = page
  /\ PaymentSuccessMount
  /\ UNCHANGED <<funnelVars, session, pricingVars, auditPageVars>>
  /\ UNCHANGED widgetVars

-----------------------------------------------------------------------------
(* SocialShareUnlock and the complete step *)

\* {step === 'social-share' && leadData.leadId && <SocialShareUnlock ... />}
SharePanel == step = "social-share" /\ leadData.leadId # 0

\* a share button: the share popup is opened
handleShare(platformId) ==
  /\ SharePanel
  /\ platformId \in SHARE_PLATFORMS
  /\ sharedPlatform' = platformId
  /\ UNCHANGED <<flowVars, pollVars, auditVars, packageVars, formVars, enrollVars,
                 leadVars, checkoutVars, isVerifying, shareError, verifies, browserVars>>
  /\ UNCHANGED widgetVars

\* "I've Shared - Unlock Report" (rendered once a platform is set, disabled
\* while isVerifying): handleVerifyShare up to its await
handleVerifyShare ==
  /\ SharePanel
  /\ ~isVerifying
  /\ sharedPlatform # NULL
  /\ InFlight < MaxInFlight
  /\ isVerifying' = TRUE
  /\ shareError' = ""
  /\ verifies' = verifies \cup
       {[id |-> CHOOSE k \in 1..MaxInFlight : \A v \in verifies : v.id # k,
         mounted |-> TRUE,
         leadId |-> leadData.leadId,
         platform |-> sharedPlatform,
         status |-> "sent"]}
  /\ UNCHANGED <<flowVars, pollVars, auditVars, packageVars, formVars, enrollVars,
                 leadVars, checkoutVars, sharedPlatform, browserVars>>
  /\ UNCHANGED widgetVars

\* the lead service answers POST /api/leads/{id}/social-share: response.ok, a
\* response that is not ok, or the fetch fails
socialShare(v) ==
  /\ v \in verifies
  /\ v.status = "sent"
  /\ \E st \in {"ok", "rejected", "error"} :
       verifies' = (verifies \ {v}) \cup {[v EXCEPT !.status = st]}
  /\ UNCHANGED <<flowVars, pollVars, auditVars, packageVars, formVars, enrollVars,
                 leadVars, checkoutVars, sharedPlatform, isVerifying, shareError,
                 browserVars>>
  /\ UNCHANGED widgetVars

\* handleVerifyShare that completes the funnel whatever the response is
handleVerifyShareResume_anyResponse(v) ==
  /\ v \in verifies
  /\ v.status # "sent"
  /\ step' = "complete"
  /\ UNCHANGED <<error, leadData>>
  /\ PollEffect(polls)
  /\ PackageRender /\ FormRender /\ EnrollRender /\ CheckoutRender
  /\ ShareRender(verifies \ {v})
  /\ UNCHANGED <<auditVars, leadVars, browserVars>>
  /\ UNCHANGED widgetVars

\* handleVerifyShare after its await; onComplete is LeadCaptureFlow's
\* () => setStep('complete')
handleVerifyShareResume(v) ==
  /\ v \in verifies
  /\ v.status # "sent"
  /\ IF v.status = "ok"
       THEN /\ step' = "complete"
            /\ UNCHANGED <<error, leadData>>
            /\ PollEffect(polls)
            /\ PackageRender /\ FormRender /\ EnrollRender /\ CheckoutRender
            /\ ShareRender(verifies \ {v})
       ELSE /\ verifies' = verifies \ {v}
            /\ sharedPlatform' = sharedPlatform
            /\ IF v.mounted
                 THEN /\ shareError' = (IF v.status = "rejected" THEN ErrVerifyShare
                                        ELSE ErrNetwork)
                      /\ isVerifying' = FALSE
                 ELSE UNCHANGED <<shareError, isVerifying>>
            /\ UNCHANGED <<flowVars, pollVars, packageVars, formVars, enrollVars,
                           checkoutVars>>
  /\ UNCHANGED <<auditVars, leadVars, browserVars>>
  /\ UNCHANGED widgetVars

-----------------------------------------------------------------------------
(* AuditPage *)

\* audit-status requests the audit page awaits at a time
MaxPagePolls == 2

FreePagePoll == CHOOSE k \in 1..MaxPagePolls : \A r \in auditPagePolls : r.id # k

\* AuditPage is mounted with params.id = a: its poll effect calls fetchAudit()
\* and sets the interval
AuditPageMount(a) ==
  /\ auditPageId' = a
  /\ audit' = NULL
  /\ loading' = TRUE
  /\ auditPageError' = ""
  /\ auditPageInterval' = TRUE
  /\ auditPagePolls' = {[id |-> 1, aid |-> a, status |-> "sent"]}

\* AuditPage is unmounted: the effect's cleanup clears the interval
AuditPageUnmount ==
  /\ auditPageId' = 0
  /\ audit' = NULL
  /\ loading' = TRUE
  /\ auditPageError' = ""
  /\ auditPageInterval' = FALSE
  /\ auditPagePolls' = {}

\* setInterval(fetchAudit, 2000) of the audit page fires
AuditPageTick ==
  /\ page = "audit"
  /\ auditPageInterval
  /\ Cardinality(auditPagePolls) < MaxPagePolls
  /\ auditPagePolls' = auditPagePolls \cup
       {[id |-> FreePagePoll, aid |-> auditPageId, status |-> "sent"]}
  /\ UNCHANGED <<funnelVars, page, storageVars, pricingVars, auditPageId, audit, loading,
                 auditPageError, auditPageInterval>>
  /\ UNCHANGED widgetVars

\* the audit service answers a status request of the audit page
AuditPageGetStatus(r) ==
  /\ r \in auditPagePolls
  /\ r.status = "sent"
  /\ \E st \in {auditStatus[r.aid], "error"} :
       auditPagePolls' = (auditPagePolls \ {r}) \cup {[r EXCEPT !.status = st]}
  /\ UNCHANGED <<funnelVars, page, storageVars, pricingVars, auditPageId, audit, loading,
                 auditPageError, auditPageInterval>>
  /\ UNCHANGED widgetVars

\* AuditPage's fetchAudit after its await
AuditPageFetchAudit(r) ==
  /\ r \in auditPagePolls
  /\ r.status # "sent"
  /\ auditPagePolls' = auditPagePolls \ {r}
  /\ IF r.status = "error"
       THEN /\ auditPageError' = ErrAuditLoad
            /\ loading' = FALSE
            /\ auditPageInterval' = FALSE
            /\ audit' = audit
       ELSE /\ audit' = r.status
            /\ auditPageError' = auditPageError
            /\ IF r.status \in {"completed", "failed"}
                 THEN loading' = FALSE /\ auditPageInterval' = FALSE
                 ELSE UNCHANGED <<loading, auditPageInterval>>
  /\ UNCHANGED <<funnelVars, page, storageVars, pricingVars, auditPageId>>
  /\ UNCHANGED widgetVars

-----------------------------------------------------------------------------
(* Navigation, the pricing page *)

\* the complete step's "View Full Report": router.push(`/audit/${leadData.auditId}`)
goToFullResults ==
  /\ step = "complete"
  /\ leadData.auditId # 0
  /\ page' = "audit"
  /\ Unload
  /\ AuditPageMount(leadData.auditId)
  /\ UNCHANGED <<sessions, storageVars, pricingVars>>
  /\ UNCHANGED widgetVars

\* the funnel page is left for the page of an audit that exists (a link of
\* the history page)
OpenAuditPage(a) ==
  /\ page = "funnel"
  /\ auditStatus[a] # "none"
  /\ page' = "audit"
  /\ Unload
  /\ AuditPageMount(a)
  /\ UNCHANGED <<sessions, storageVars, pricingVars>>
  /\ UNCHANGED widgetVars

\* the payment return page's "View Full Report":
\* router.push(`/audit/${pendingPayment.auditId}`)
ViewFullReport ==
  /\ page = "payment-success"
  /\ pendingPayment # Absent
  /\ pendingPayment.auditId # 0
  /\ page' = "audit"
  /\ AuditPageMount(pendingPayment.auditId)
  /\ pendingPayment' = Absent
  /\ session' = 0
  /\ UNCHANGED <<funnelVars, pending_payment, pricingVars>>
  /\ UNCHANGED widgetVars

\* a link to "/": LeadCaptureFlow is mounted anew
GoHome ==
  /\ page \in {"payment-success", "pricing", "login", "audit"}
  /\ page' = "funnel"
  /\ pendingPayment' = Absent
  /\ session' = 0
  /\ purchases' = {}
  /\ pricingLoading' = NULL
  /\ pricingError' = ""
  /\ AuditPageUnmount
  /\ UNCHANGED <<funnelVars, pending_payment>>
  /\ UNCHANGED widgetVars

\* the hosted checkout is abandoned: the user opens the pricing page
StripeAbandon ==
  /\ page = "stripe"
  /\ page' = "pricing"
  /\ session' = 0
  /\ UNCHANGED <<funnelVars, pending_payment, pendingPayment, pricingVars, auditPageVars>>
  /\ UNCHANGED widgetVars

\* PricingPage.handlePurchase up to its await (the button of the product being
\* bought is disabled); isAuthenticated is the auth store's
handlePurchase(productId, isAuthenticated) ==
  /\ page = "pricing"
  /\ pricingLoading # productId
  /\ IF ~isAuthenticated
       THEN /\ page' = "login"
            /\ purchases' = {}
            /\ pricingLoading' = NULL
            /\ pricingError' = ""
       ELSE /\ InFlight < MaxInFlight
            /\ page' = page
            /\ pricingLoading' = productId
            /\ pricingError' = ""
            /\ purchases' = purchases \cup
                 {[id |-> CHOOSE k \in 1..MaxInFlight : \A c \in purchases : c.id # k,
                   productId |-> productId]}
  /\ UNCHANGED <<funnelVars, storageVars, auditPageVars>>
  /\ UNCHANGED widgetVars

PurchaseOutcomes == {"checkout_url", "throw"}

\* handlePurchase after its await
handlePurchaseResume(c, outcome) ==
  /\ c \in purchases
  /\ IF outcome = "checkout_url"
       THEN /\ sessions < MaxSessions
            /\ sessions' = sessions + 1
            /\ session' = sessions + 1
            /\ page' = "stripe"
            /\ purchases' = {}
            /\ pricingLoading' = NULL
            /\ pricingError' = ""
       ELSE /\ purchases' = purchases \ {c}
            /\ pricingError' = ErrPurchase
            /\ pricingLoading' = NULL
            /\ UNCHANGED <<sessions, session, page>>
  /\ UNCHANGED <<flowVars, pollVars, auditVars, packageVars, formVars, enrollVars,
                 leadVars, isLoading, checkoutError, checkouts, shareVars,
                 pending_payment, pendingPayment, auditPageVars>>
  /\ UNCHANGED widgetVars

-----------------------------------------------------------------------------
(* SignatureCanvas, rendered by EnrollmentForm *)

\* positions of the pointer on the surface
MaxPoints == 3

RECURSIVE Pixels(_, _)
\* the surface read point by point from k on
Pixels(surface, k) ==
  IF k > MaxPoints THEN ""
  ELSE (IF k \in surface THEN "1" ELSE "0") \o Pixels(surface, k + 1)

\* canvas.toDataURL('image/png'): an image of what the surface holds
toDataURL(surface) == "data:image/png;base64," \o Pixels(surface, 1)

\* The canvas is mounted while the funnel shows the enrollment form.

\* mousedown / touchstart: a dot at the point pressed
startDrawing(point) ==
  /\ page = "funnel" /\ step = "enrollment"
  /\ isDrawing' = TRUE
  /\ lastPoint' = point
  /\ canvas' = canvas \cup {point}
  /\ UNCHANGED <<sigDataUrl, funnelVars, browserVars, authVars, chatVars>>

\* mousemove / touchmove: a line from the last point to the point reached
draw(point) ==
  /\ page = "funnel" /\ step = "enrollment"
  /\ isDrawing
  /\ canvas' = (IF lastPoint # 0 THEN canvas \cup {lastPoint, point} ELSE canvas)
  /\ lastPoint' = point
  /\ UNCHANGED <<isDrawing, sigDataUrl, funnelVars, browserVars, authVars, chatVars>>

\* mouseup / mouseleave / touchend, and mouseup on the window: the image of
\* the surface is reported when a press is ended, nothing happens otherwise
stopDrawing ==
  /\ page = "funnel" /\ step = "enrollment"
  /\ IF isDrawing
       THEN /\ isDrawing' = FALSE
            /\ lastPoint' = 0
            /\ sigDataUrl' = toDataURL(canvas)
       ELSE UNCHANGED <<isDrawing, lastPoint, sigDataUrl>>
  /\ UNCHANGED <<canvas, funnelVars, browserVars, authVars, chatVars>>

\* clearSignature that reports the image of the emptied surface
clearSignature_blankImage ==
  /\ page = "funnel" /\ step = "enrollment"
  /\ canvas' = {}
  /\ sigDataUrl' = toDataURL({})
  /\ UNCHANGED <<isDrawing, lastPoint, funnelVars, browserVars, authVars, chatVars>>

\* the Clear button: the surface is filled with white, null is reported
clearSignature ==
  /\ page = "funnel" /\ step = "enrollment"
  /\ canvas' = {}
  /\ sigDataUrl' = NULL
  /\ UNCHANGED <<isDrawing, lastPoint, funnelVars, browserVars, authVars, chatVars>>

\* the window's resize event: initCanvas sets the size of the canvas, which
\* empties the surface, and fills it with white
handleResize ==
  /\ page = "funnel" /\ step = "enrollment"
  /\ canvas' = {}
  /\ UNCHANGED <<isDrawing, lastPoint, sigDataUrl, funnelVars, browserVars, authVars, chatVars>>

-----------------------------------------------------------------------------
(* useAuth: the auth store, and Navigation's logout button *)

\* authApi calls made
MaxAuthCalls == 4

\* checkAuth up to its await; the mount effects of Navigation and of the
\* pages call it
checkAuth ==
  /\ ~leaving
  /\ authSeq < MaxAuthCalls
  /\ auth' = [auth EXCEPT !.isLoading = TRUE]
  /\ authSeq' = authSeq + 1
  /\ authCalls' = authCalls \cup
       {[seq |-> authSeq + 1, kind |-> "me", status |-> "sent", old |-> FALSE]}
  /\ UNCHANGED <<cookie, leaving, funnelVars, browserVars,
                 canvasVars, chatVars>>

\* login up to its await
login ==
  /\ ~leaving
  /\ authSeq < MaxAuthCalls
  /\ authSeq' = authSeq + 1
  /\ authCalls' = authCalls \cup
       {[seq |-> authSeq + 1, kind |-> "login", status |-> "sent", old |-> FALSE]}
  /\ UNCHANGED <<auth, cookie, leaving, funnelVars, browserVars,
                 canvasVars, chatVars>>

\* register up to its await
register ==
  /\ ~leaving
  /\ authSeq < MaxAuthCalls
  /\ authSeq' = authSeq + 1
  /\ authCalls' = authCalls \cup
       {[seq |-> authSeq + 1, kind |-> "register", status |-> "sent", old |-> FALSE]}
  /\ UNCHANGED <<auth, cookie, leaving, funnelVars, browserVars,
                 canvasVars, chatVars>>

\* Navigation's logout button, rendered when !isLoading && isAuthenticated:
\* handleLogout and the store's logout up to its await
handleLogout ==
  /\ ~leaving
  /\ ~auth.isLoading /\ auth.isAuthenticated
  /\ authSeq < MaxAuthCalls
  /\ authSeq' = authSeq + 1
  /\ authCalls' = authCalls \cup
       {[seq |-> authSeq + 1, kind |-> "logout", status |-> "sent", old |-> FALSE]}
  /\ UNCHANGED <<auth, cookie, leaving, funnelVars, browserVars,
                 canvasVars, chatVars>>

\* the auth service answers a call, or the call fails: me succeeds for a valid
\* session, login and register open a session, logout closes it
authApi(c) ==
  /\ c \in authCalls
  /\ c.status = "sent"
  /\ \E st \in {"ok", "fail"} :
       /\ (c.kind = "me" /\ st = "ok") => cookie
       /\ authCalls' = (authCalls \ {c}) \cup {[c EXCEPT !.status = st]}
       /\ cookie' = IF st = "fail" \/ c.kind = "me" THEN cookie
                    ELSE c.kind \in {"login", "register"}
  /\ UNCHANGED <<auth, authSeq, leaving, funnelVars, browserVars,
                 canvasVars, chatVars>>

\* the store's functions after their await.  old marks the calls that were
\* under way when a logout completed.  login, register and logout have no
\* catch: a failed call sets nothing, and a failed logout does not reach the
\* assignment of window.location.href in handleLogout.
authResume(c) ==
  /\ c \in authCalls
  /\ c.status # "sent"
  /\ auth' = CASE c.kind = "me" ->
                    IF c.status = "ok"
                      THEN [user |-> "user", isLoading |-> FALSE, isAuthenticated |-> TRUE]
                      ELSE [user |-> NULL, isLoading |-> FALSE, isAuthenticated |-> FALSE]
               [] c.kind \in {"login", "register"} /\ c.status = "ok" ->
                    [auth EXCEPT !.user = "user", !.isAuthenticated = TRUE]
               [] c.kind = "logout" /\ c.status = "ok" ->
                    [auth EXCEPT !.user = NULL, !.isAuthenticated = FALSE]
               [] OTHER -> auth
  /\ IF c.kind = "logout" /\ c.status = "ok"
       THEN /\ authCalls' = {[d EXCEPT !.old = TRUE] : d \in authCalls \ {c}}
            /\ leaving' = TRUE
       ELSE /\ authCalls' = authCalls \ {c}
            /\ leaving' = leaving
  /\ UNCHANGED <<authSeq, cookie, funnelVars, browserVars,
                 canvasVars, chatVars>>

\* the document assigned to window.location.href replaces the page: a new
\* store, and the responses of the old page's calls are dropped
reload ==
  /\ leaving
  /\ auth' = [user |-> NULL, isLoading |-> TRUE, isAuthenticated |-> FALSE]
  /\ authCalls' = {}
  /\ leaving' = FALSE
  /\ UNCHANGED <<authSeq, cookie, funnelVars, browserVars,
                 canvasVars, chatVars>>

-----------------------------------------------------------------------------
(* SalesChat *)

\* messages the user sends
MaxMessages == 4
\* setTimeout(sendMessage, 100) calls not yet fired
MaxTimers == 2

ErrChat == "Sorry, an error occurred. Please try again."

\* sendMessage of the render in which input and loading had the values inp
\* and ld
sendMessage(inp, ld) ==
  IF Trim(inp) = <<>> \/ ld
    THEN UNCHANGED <<messages, input, chatLoading, chatReqs>>
    ELSE /\ Len(messages) < MaxMessages
         /\ input' = <<>>
         /\ messages' = Append(messages, [role |-> "user", content |-> Trim(inp)])
         /\ chatLoading' = TRUE
         /\ chatReqs' = chatReqs + 1

\* the chat button and the X of the window, and the welcome effect
setIsOpen(open) ==
  /\ isOpen # open
  /\ isOpen' = open
  /\ messages' = IF open /\ Len(messages) = 0
                   THEN <<[role |-> "assistant", content |-> <<"welcome">>]>>
                   ELSE messages
  /\ UNCHANGED <<input, chatLoading, timers, chatReqs>>
  /\ UNCHANGED <<funnelVars, browserVars, canvasVars, authVars>>

\* the text field, disabled while loading
setInput(text) ==
  /\ isOpen /\ ~chatLoading
  /\ input # text
  /\ input' = text
  /\ UNCHANGED <<isOpen, messages, chatLoading, timers, chatReqs>>
  /\ UNCHANGED <<funnelVars, browserVars, canvasVars, authVars>>

\* Enter in the text field, or the send button
handleKeyPress ==
  /\ isOpen /\ ~chatLoading
  /\ sendMessage(input, chatLoading)
  /\ UNCHANGED <<isOpen, timers>>
  /\ UNCHANGED <<funnelVars, browserVars, canvasVars, authVars>>

\* a quick-question button, rendered while messages.length <= 2: setInput(q)
\* and a timer for the sendMessage of the render the button belongs to
quickQuestion(q) ==
  /\ isOpen /\ Len(messages) <= 2
  /\ Len(timers) < MaxTimers
  /\ input' = q
  /\ timers' = Append(timers, [q |-> q, input |-> input, loading |-> chatLoading])
  /\ UNCHANGED <<isOpen, messages, chatLoading, chatReqs>>
  /\ UNCHANGED <<funnelVars, browserVars, canvasVars, authVars>>

\* the oldest timer fires
timeout ==
  /\ timers # <<>>
  /\ timers' = Tail(timers)
  /\ sendMessage(Head(timers).input, Head(timers).loading)
  /\ UNCHANGED isOpen
  /\ UNCHANGED <<funnelVars, browserVars, canvasVars, authVars>>

\* sendMessage after its await: the reply, or the error text of the catch
chatReply(outcome) ==
  /\ chatReqs > 0
  /\ chatReqs' = chatReqs - 1
  /\ messages' = Append(messages,
       [role |-> "assistant",
        content |-> IF outcome = "reply" THEN <<"reply">> ELSE <<ErrChat>>])
  /\ chatLoading' = FALSE
  /\ UNCHANGED <<isOpen, input, timers>>
  /\ UNCHANGED <<funnelVars, browserVars, canvasVars, authVars>>

-----------------------------------------------------------------------------
(* Specifications *)

AuditPhase ==
  \/ \E u \in Urls : handleUrlSubmit(u)
  \/ \E o \in StartOutcomes : handleUrlSubmitResume(o)
  \/ \E a \in 1..MaxAudits : AuditProgress(a)
  \/ IntervalTick
  \/ \E r \in polls : getStatus(r)
  \/ \E r \in polls : fetchAudit(r)

Selection ==
  \/ onSelectPackage
  \/ handleBack
  \/ \E p \in {"starter", "pro", "full"} : PackageClick(p)
  \/ \E a \in Toggled : toggleAudit(a)
  \/ handleContinue
  \/ \E e \in Emails, n \in Names, t \in BOOLEAN, p \in BOOLEAN, sig \in Signatures :
       handleSubmit(e, n, t, p, sig)
  \/ \E c \in enrolling : \E ip \in ClientIPs : handleSubmitResume(c, ip)

Unlock ==
  \/ \E r \in leadReqs : \E o \in LeadOutcomes : handleEnrollmentSubmit(r, o)
  \/ handleCheckout
  \/ \E c \in checkouts : \E o \in CheckoutOutcomes : handleCheckoutResume(c, o)
  \/ onCancel
  \/ StripeSuccess
  \/ PaymentSuccessReload

Share ==
  \/ \E p \in SHARE_PLATFORMS : handleShare(p)
  \/ handleVerifyShare
  \/ \E v \in verifies : socialShare(v)
  \/ \E v \in verifies : handleVerifyShareResume(v)
  \/ goToFullResults

Return ==
  \/ StripeAbandon
  \/ \E p \in Products : \E a \in BOOLEAN : handlePurchase(p, a)
  \/ \E c \in purchases : \E o \in PurchaseOutcomes : handlePurchaseResume(c, o)
  \/ ViewFullReport
  \/ GoHome

AuditView ==
  \/ \E a \in 1..MaxAudits : OpenAuditPage(a)
  \/ AuditPageTick
  \/ \E r \in auditPagePolls : AuditPageGetStatus(r)
  \/ \E r \in auditPagePolls : AuditPageFetchAudit(r)
  \/ GoHome

\* The program.  LeadCaptureFlow renders <EnrollmentForm onSubmit={...} />
\* and the form calls its onSuccess prop, so no behaviour of the program calls
\* handleEnrollmentSubmit: the actions of Unlock are not steps of Next.
Next == AuditPhase \/ Selection

Spec == Init /\ [][Next]_vars

\* The funnel from the teaser on, with the handler passed under the name the
\* form reads: the audit is completed, its result is shown and no status
\* request is outstanding (AuditDone, a state of Spec but for formProps).  The
\* steps after enrollment are checked against this specification.
WiredFormProps == [onSuccess |-> "handleEnrollmentSubmit"]

AuditDone ==
  /\ step = "teaser-results"
  /\ error = ""
  /\ leadData = [InitLeadData EXCEPT
                   !.url = <<"https://", "example.com">>,
                   !.auditId = 1,
                   !.auditResult = [id |-> 1, status |-> "completed"]]
  /\ interval = 0
  /\ polls = {}
  /\ pollSeq = 1
  /\ starts = 0
  /\ auditStatus = [a \in 1..MaxAudits |-> IF a = 1 THEN "completed" ELSE "none"]
  /\ PackageInit
  /\ FormInit
  /\ enrolling = {}
  /\ auditEntries = 0
  /\ leadReqs = {}
  /\ leads = {}
  /\ isLoading = FALSE
  /\ checkoutError = ""
  /\ checkouts = {}
  /\ sessions = 0
  /\ ShareInit
  /\ BrowserInit
  /\ WidgetInit

InitWired == AuditDone /\ formProps = WiredFormProps

NextWired == Selection \/ Unlock \/ Share \/ Return

SpecWired == InitWired /\ [][NextWired]_vars

\* The funnel from the teaser on while the response of an older status request
\* is still under way: the request of the interval's first tick was answered
\* completed and is handled after the response that took the funnel to the
\* teaser (LateResponse, a state of Spec but for formProps).
LateResponse ==
  /\ step = "teaser-results"
  /\ error = ""
  /\ leadData = [InitLeadData EXCEPT
                   !.url = <<"https://", "example.com">>,
                   !.auditId = 1,
                   !.auditResult = [id |-> 1, status |-> "completed"]]
  /\ interval = 0
  /\ polls = {[seq |-> 2, aid |-> 1, status |-> "completed"]}
  /\ pollSeq = 2
  /\ starts = 0
  /\ auditStatus = [a \in 1..MaxAudits |-> IF a = 1 THEN "completed" ELSE "none"]
  /\ PackageInit
  /\ FormInit
  /\ enrolling = {}
  /\ auditEntries = 0
  /\ leadReqs = {}
  /\ leads = {}
  /\ isLoading = FALSE
  /\ checkoutError = ""
  /\ checkouts = {}
  /\ sessions = 0
  /\ ShareInit
  /\ BrowserInit
  /\ WidgetInit

InitLate == LateResponse /\ formProps = WiredFormProps

NextLate == Selection \/ Unlock \/ Share \/ (\E r \in polls : fetchAudit(r))

SpecLate == InitLate /\ [][NextLate]_vars

\* The funnel's audit phase and the audit page.
NextPoll == AuditPhase \/ AuditView

SpecPoll == Init /\ [][NextPoll]_vars

\* The interval fires, every status request is answered (with a status or an
\* error) and every response is handled.
FairPoll ==
  /\ SpecPoll
  /\ WF_vars(IntervalTick)
  /\ WF_vars(\E r \in polls : getStatus(r))
  /\ WF_vars(\E r \in polls : fetchAudit(r))

\* The hosted checkout returns and the user follows the links of the payment
\* return page.
FairWired ==
  /\ SpecWired
  /\ WF_vars(StripeSuccess)
  /\ WF_vars(ViewFullReport)
  /\ WF_vars(GoHome)

\* The awaited client-IP lookup of a submission settles.
FairSpec ==
  Spec /\ WF_vars(\E c \in enrolling : \E ip \in ClientIPs : handleSubmitResume(c, ip))

\* The enrollment form with its signature canvas: the funnel is in enrollment
\* for a completed audit and the full package (a state of Spec), the user
\* draws, clears, resizes the window and submits the form with the payload
\* the canvas reported last.
EnrollmentShown ==
  /\ step = "enrollment"
  /\ error = ""
  /\ leadData = [InitLeadData EXCEPT
                   !.url = <<"https://", "example.com">>,
                   !.auditId = 1,
                   !.auditResult = [id |-> 1, status |-> "completed"],
                   !.selectedPackage = "full",
                   !.selectedAudits = AUDIT_TYPES]
  /\ interval = 0
  /\ polls = {}
  /\ pollSeq = 1
  /\ starts = 0
  /\ auditStatus = [a \in 1..MaxAudits |-> IF a = 1 THEN "completed" ELSE "none"]
  /\ PackageInit
  /\ FormInit
  /\ formProps = EnrollmentFormProps
  /\ enrolling = {}
  /\ auditEntries = 0
  /\ leadReqs = {}
  /\ leads = {}
  /\ isLoading = FALSE
  /\ checkoutError = ""
  /\ checkouts = {}
  /\ sessions = 0
  /\ ShareInit
  /\ BrowserInit
  /\ WidgetInit

NextCanvas ==
  \/ \E point \in 1..MaxPoints : startDrawing(point)
  \/ \E point \in 1..MaxPoints : draw(point)
  \/ stopDrawing
  \/ clearSignature
  \/ handleResize
  \/ \E e \in Emails, n \in Names, t \in BOOLEAN, p \in BOOLEAN :
       handleSubmit(e, n, t, p, IF sigDataUrl \in {NULL, ""} THEN NULL ELSE sigDataUrl)
  \/ \E c \in enrolling : \E ip \in ClientIPs : handleSubmitResume(c, ip)

SpecCanvas == EnrollmentShown /\ [][NextCanvas]_vars

\* The funnel back at url-input after the audit it polled failed: fetchAudit
\* showed the error and the step, and left leadData.auditId on the failed
\* audit.  No status request is outstanding; the requests are counted from
\* this state on.
AuditFailed ==
  /\ step = "url-input"
  /\ error = ErrAuditFailed
  /\ leadData = [InitLeadData EXCEPT !.url = <<"https://", "example.com">>,
                                     !.auditId = 1]
  /\ interval = 0
  /\ polls = {}
  /\ pollSeq = 0
  /\ starts = 0
  /\ auditStatus = [a \in 1..MaxAudits |-> IF a = 1 THEN "failed" ELSE "none"]
  /\ PackageInit
  /\ FormInit
  /\ formProps = EnrollmentFormProps
  /\ enrolling = {}
  /\ auditEntries = 0
  /\ leadReqs = {}
  /\ leads = {}
  /\ isLoading = FALSE
  /\ checkoutError = ""
  /\ checkouts = {}
  /\ sessions = 0
  /\ ShareInit
  /\ BrowserInit
  /\ WidgetInit

SpecRetry == AuditFailed /\ [][AuditPhase]_vars

\* The auth store under the calls of the pages, the auth service and the
\* logout button; the funnel stays at its first step.
NextAuth ==
  \/ checkAuth
  \/ login
  \/ register
  \/ handleLogout
  \/ \E c \in authCalls : authApi(c)
  \/ \E c \in authCalls : authResume(c)
  \/ reload

SpecAuth == Init /\ [][NextAuth]_vars

\* The chat window under its user, its timers and the chat service.
NextChat ==
  \/ \E open \in BOOLEAN : setIsOpen(open)
  \/ \E text \in {<<>>, <<" ">>, <<" ", "hello", " ">>} : setInput(text)
  \/ handleKeyPress
  \/ \E q \in {<<"What are the prices?">>, <<"How does it work?">>} : quickQuestion(q)
  \/ timeout
  \/ \E outcome \in {"reply", "throw"} : chatReply(outcome)

SpecChat == Init /\ [][NextChat]_vars

-----------------------------------------------------------------------------
(* Properties *)

C2_ConsentGate ==
  /\ [](\A c \in enrolling : c.termsAccepted /\ c.privacyAccepted)
  /\ [][rejected' /\ ~rejected
          => UNCHANGED <<step, leadData, enrolling, leadReqs, leads, isSubmitting>>]_vars

\* C2 witness: a submission with a consent box unticked was rejected
C2_Rejected == step = "enrollment" /\ rejected /\ enrolling = {}

\* C3: a submission with a valid email, a trimmed name of 2 characters or more
\* and both boxes ticked leads the funnel from enrollment to social-share or
\* payment.
C3_ValidSubmitLeavesEnrollment ==
  (enrolling # {}) ~> (step \in {"social-share", "payment"})

\* C4: the package and the category list handed to the funnel: for a package
\* other than full, at least 1 and at most auditsIncluded categories; for full,
\* all categories.
C4_PackageCategories ==
  leadData.selectedPackage # "" =>
    IF leadData.selectedPackage = "full"
      THEN leadData.selectedAudits = AUDIT_TYPES
      ELSE /\ Cardinality(leadData.selectedAudits) >= 1
           /\ Cardinality(leadData.selectedAudits)
                <= Package(leadData.selectedPackage).auditsIncluded

\* C4 witness: pro handed over with as many categories as it includes
C4_ProHandedOver ==
  /\ step = "enrollment"
  /\ leadData.selectedPackage = "pro"
  /\ Cardinality(leadData.selectedAudits) = Package("pro").auditsIncluded

\* a status request dispatched after r has been answered and handled already
Stale(r) == \E k \in (r.seq + 1)..pollSeq : \A q \in polls : q.seq # k

\* C5: the late response of an older status request never moves the step or
\* the audit shown once a newer response has taken the funnel out of auditing.
C5_LateResponseIgnored ==
  [][\A r \in polls : (r.status # "sent" /\ r \notin polls' /\ Stale(r)
                         /\ step # "auditing")
        => UNCHANGED <<step, error, leadData>>]_vars

C9_AuditFailure ==
  /\ [][\A r \in polls : (r.status = "failed" /\ r \notin polls' /\ step = "auditing")
          => step' = "url-input" /\ error' = ErrAuditFailed]_vars
  /\ [][(starts' < starts /\ leadData'.auditId = leadData.auditId /\ step = "auditing")
          => step' = "url-input" /\ error' # ""]_vars

\* C9 witness: a failed status was polled
C9_FailedShown ==
  /\ step = "url-input"
  /\ error = ErrAuditFailed
  /\ \E a \in 1..MaxAudits : auditStatus[a] = "failed"

\* a createCheckout call of c ends without a checkout url
CheckoutFailed(c) ==
  c \in checkouts /\ (\A d \in checkouts' : d.id # c.id) /\ page' = "funnel"

ReturnedFromFunnelCheckout ==
  /\ page = "payment-success"
  /\ pendingPayment # Absent
  /\ pendingPayment.sessionId = session

VerifyFailed(v) ==
  /\ v \in verifies
  /\ v.status \in {"rejected", "error"}
  /\ \A w \in verifies' : w.id # v.id
  /\ page' = "funnel"

C16_TableOnly ==
  [][LET Transitions ==
          { <<"url-input", "auditing">>,
            <<"auditing", "teaser-results">>, <<"auditing", "url-input">>,
            <<"teaser-results", "package-selection">>,
            <<"package-selection", "enrollment">>,
            <<"enrollment", "social-share">>, <<"enrollment", "payment">>,
            <<"social-share", "complete">>, <<"payment", "complete">>,
            <<"package-selection", "teaser-results">>,
            <<"enrollment", "package-selection">>,
            <<"social-share", "enrollment">>, <<"payment", "enrollment">> }
      IN (step' # step /\ page' = "funnel") => <<step, step'>> \in Transitions]_vars


\* the audit page dispatches a status request
PageDispatch == \E r \in auditPagePolls' : r.status = "sent" /\ r \notin auditPagePolls

\* C17: no poll timer outlives its owner.  The funnel's interval is set only
\* while the funnel is shown in auditing with the audit it polls, and the
\* funnel dispatches a status request only into auditing; the audit page's
\* interval is set only while the page is shown and has handled neither a
\* completed or failed status nor an error, and the page dispatches a request
\* only while its interval is set.
C17_NoPollOutlivesOwner ==
  /\ [](interval # 0 => (page = "funnel" /\ step = "auditing"
                           /\ interval = leadData.auditId))
  /\ [][pollSeq' # pollSeq
          => (pollSeq' = pollSeq + 1 /\ page' = "funnel" /\ step' = "auditing"
                /\ interval' # 0)]_vars
  /\ [](auditPageInterval => (page = "audit" /\ audit \notin {"completed", "failed"}
                                /\ auditPageError = ""))
  /\ [][PageDispatch => (page' = "audit" /\ auditPageInterval')]_vars

\* C17 witness: a terminal status was handled while another request was under
\* way, and the interval is cleared
C17_ClearedWithRequestPending ==
  \/ step = "teaser-results" /\ interval = 0 /\ polls # {}
  \/ page = "audit" /\ audit = "completed" /\ ~auditPageInterval /\ auditPagePolls # {}

\* the audit the funnel polls has reached a terminal status
AuditTerminal ==
  /\ step = "auditing"
  /\ leadData.auditId # 0
  /\ auditStatus[leadData.auditId] \in {"completed", "failed"}

\* every status request of the model's budget was dispatched and handled
PollsUsedUp == pollSeq = MaxPolls /\ polls = {}

Resumed(c) == c \in enrolling /\ (\A d \in enrolling' : d.id # c.id) /\ page' = "funnel"

\* the success callback is called: a create-lead request is sent
CallbackCalled == \E r \in leadReqs' : \A q \in leadReqs : q.id # r.id

C28_PayloadOnlyWithInk ==
  canvas = {} => sigDataUrl = NULL

\* C24: normalizing a url twice gives what normalizing it once gives, and the
\* url the funnel stores is never https:// put in front of a string that
\* begins with a scheme.
C24_NormalizeOnce ==
  /\ \A u \in Urls : NormalizeUrl(NormalizeUrl(u)) = NormalizeUrl(u)
  /\ NormalizeUrl(leadData.url) = leadData.url \/ leadData.url = <<>>
  /\ Len(leadData.url) >= 2 => leadData.url[2] \notin {"http://", "https://", "Https://"}


\* C25: from teaser-results on, the audit result is stored and it is the
\* result of the audit whose id is stored.
C25_ResultOfStoredAudit ==
  step \in {"teaser-results", "package-selection", "enrollment", "social-share",
            "payment", "complete"}
    => IF leadData.auditResult = Absent THEN FALSE
       ELSE leadData.auditResult.id = leadData.auditId

\* C27: after a resubmission no status request is sent for the audit that
\* failed before (audit 1 of AuditFailed), so its status cannot end the new
\* attempt.
C27_FailedAuditNotPolled == \A r \in polls : r.aid # 1


\* C26 as stated: a package other than full is confirmed with exactly as many
\* categories as it includes.
C26_ExactlyIncluded ==
  [][(step = "package-selection" /\ step' = "enrollment" /\ selectedPackage # "full")
       => Cardinality(leadData'.selectedAudits)
            = Package(selectedPackage).auditsIncluded]_vars

\* C26: a package other than full is confirmed with the categories ticked, at
\* least one and at most as many as the package includes; full is confirmed
\* with every category, and while full is selected the list cannot be changed.
C26_ConfirmedWithinIncluded ==
  [][/\ (step = "package-selection" /\ step' = "enrollment") =>
          IF selectedPackage = "full"
            THEN leadData'.selectedAudits = AUDIT_TYPES
            ELSE /\ leadData'.selectedAudits = selectedAudits
                 /\ Cardinality(selectedAudits) \in
                      1..Package(selectedPackage).auditsIncluded
     /\ (selectedPackage = "full" /\ selectedPackage' = "full") =>
          selectedAudits' = selectedAudits]_vars

\* C26 witness: starter confirmed with one category of the two it includes
C26_StarterWithOne ==
  /\ step = "enrollment"
  /\ leadData.selectedPackage = "starter"
  /\ Cardinality(leadData.selectedAudits) = 1
  /\ Package("starter").auditsIncluded = 2


\* C29: the store becomes authenticated only by a call that was not under way
\* when a logout completed; a checkAuth started before the logout and
\* answered after it leaves user null.
C29_LogoutHolds ==
  [][(~auth.isAuthenticated /\ auth'.isAuthenticated)
       => \E c \in authCalls \ authCalls' : ~c.old]_vars


\* C30: the timer of a quick question clicked while nothing is loading sends
\* that question as a user message, and at most one request is under way and
\* no user message follows another without an assistant message between.
C30_QuickQuestionSent ==
  /\ [](/\ chatReqs <= 1
        /\ \A i \in 1..(Len(messages) - 1) :
             messages[i].role = "user" => messages[i + 1].role = "assistant")
  /\ [][(timers # <<>> /\ timers' = Tail(timers) /\ ~Head(timers).loading
           /\ chatReqs = 0 /\ Len(messages) < MaxMessages)
          => /\ messages' = Append(messages,
                              [role |-> "user", content |-> Head(timers).q])
             /\ chatReqs' = 1]_vars

=============================================================================
